---------------------------- MODULE Spec2Model ----------------------------
(***************************************************************************)
(* Pine Script trend-line generator: the level generator                   *)
(* (generatePineScript), the submission handlers of the chat App and of    *)
(* the form App, and the arithmetic of the JavaScript Number type they     *)
(* compute with.                                                           *)
(*                                                                         *)
(* A JavaScript Number is an IEEE-754 binary64 value.  The generator's     *)
(* arithmetic (Math.sqrt, Math.floor, -, *, %, +) is modelled on exact     *)
(* dyadic rationals m * 2^e followed by round-to-nearest-even to 53        *)
(* significant bits, so that rounding is part of the model.  Naturals      *)
(* wider than TLC's integers are sequences of limbs, least significant     *)
(* first, without leading zero limbs.                                      *)
(***************************************************************************)
EXTENDS Integers, Sequences, FiniteSets, TLC

--------------------------------------------------------------------------
(* Multi-limb naturals *)

Radix == 2^15

Limb(a, i) == IF i <= Len(a) THEN a[i] ELSE 0

RECURSIVE DropZeros(_)
DropZeros(a) ==
  IF a = <<>> \/ a[Len(a)] /= 0 THEN a ELSE DropZeros(SubSeq(a, 1, Len(a) - 1))

RECURSIVE FromInt(_)
FromInt(n) == IF n = 0 THEN <<>> ELSE <<n % Radix>> \o FromInt(n \div Radix)

RECURSIVE ToInt(_)
ToInt(a) == IF a = <<>> THEN 0 ELSE a[1] + Radix * ToInt(Tail(a))

RECURSIVE AddFrom(_, _, _, _)
AddFrom(a, b, i, c) ==
  IF i > Len(a) /\ i > Len(b)
  THEN (IF c = 0 THEN <<>> ELSE <<c>>)
  ELSE LET s == Limb(a, i) + Limb(b, i) + c
       IN  <<s % Radix>> \o AddFrom(a, b, i + 1, s \div Radix)

BigAdd(a, b) == AddFrom(a, b, 1, 0)

RECURSIVE SubFrom(_, _, _, _)
SubFrom(a, b, i, c) ==
  IF i > Len(a)
  THEN <<>>
  ELSE LET s == Limb(a, i) - Limb(b, i) - c
       IN  IF s < 0
           THEN <<s + Radix>> \o SubFrom(a, b, i + 1, 1)
           ELSE <<s>> \o SubFrom(a, b, i + 1, 0)

\* a - b for a >= b
BigSub(a, b) == DropZeros(SubFrom(a, b, 1, 0))

RECURSIVE CmpFrom(_, _, _)
CmpFrom(a, b, i) ==
  IF i = 0 THEN 0
  ELSE IF a[i] < b[i] THEN -1
  ELSE IF a[i] > b[i] THEN 1
  ELSE CmpFrom(a, b, i - 1)

\* -1, 0 or 1 as a < b, a = b, a > b
BigCmp(a, b) ==
  IF Len(a) < Len(b) THEN -1
  ELSE IF Len(a) > Len(b) THEN 1
  ELSE CmpFrom(a, b, Len(a))

RECURSIVE MulSmallFrom(_, _, _, _)
MulSmallFrom(a, k, i, c) ==
  IF i > Len(a)
  THEN (IF c = 0 THEN <<>> ELSE <<c>>)
  ELSE LET s == a[i] * k + c
       IN  <<s % Radix>> \o MulSmallFrom(a, k, i + 1, s \div Radix)

\* a * k for 0 <= k < Radix
MulSmall(a, k) == IF k = 0 THEN <<>> ELSE MulSmallFrom(a, k, 1, 0)

ShlLimbs(a, n) == IF a = <<>> THEN <<>> ELSE [i \in 1..n |-> 0] \o a

RECURSIVE MulFrom(_, _, _)
MulFrom(a, b, i) ==
  IF i > Len(b) THEN <<>>
  ELSE BigAdd(ShlLimbs(MulSmall(a, b[i]), i - 1), MulFrom(a, b, i + 1))

BigMul(a, b) == MulFrom(a, b, 1)

\* a * 2^n
Shl(a, n) == MulSmall(ShlLimbs(a, n \div 15), 2^(n % 15))

RECURSIVE DivSmallFrom(_, _, _, _)
DivSmallFrom(a, k, i, r) ==
  IF i = 0 THEN <<>>
  ELSE LET s == r * Radix + a[i]
       IN  DivSmallFrom(a, k, i - 1, s % k) \o <<s \div k>>

\* floor(a / k) for 0 < k <= Radix
DivSmall(a, k) == DropZeros(DivSmallFrom(a, k, Len(a), 0))

\* floor(a / 2^n)
Shr(a, n) ==
  IF n \div 15 >= Len(a) THEN <<>>
  ELSE DivSmall(SubSeq(a, n \div 15 + 1, Len(a)), 2^(n % 15))

RECURSIVE IntBitLen(_)
IntBitLen(n) == IF n = 0 THEN 0 ELSE 1 + IntBitLen(n \div 2)

BitLen(a) == IF a = <<>> THEN 0 ELSE 15 * (Len(a) - 1) + IntBitLen(a[Len(a)])

\* bit i of a, bit 0 the least significant
Bit(a, i) == (Limb(a, i \div 15 + 1) \div 2^(i % 15)) % 2

\* a mod 2^n = 0
LowBitsZero(a, n) ==
  /\ \A i \in 1..(n \div 15) : Limb(a, i) = 0
  /\ Limb(a, n \div 15 + 1) % 2^(n % 15) = 0

\* number of trailing zero bits of a /= 0
RECURSIVE IntTrailingZeros(_)
IntTrailingZeros(n) == IF n % 2 = 1 THEN 0 ELSE 1 + IntTrailingZeros(n \div 2)

RECURSIVE TrailingZerosFrom(_, _)
TrailingZerosFrom(a, i) ==
  IF a[i] = 0 THEN 15 + TrailingZerosFrom(a, i + 1) ELSE IntTrailingZeros(a[i])

TrailingZeros(a) == TrailingZerosFrom(a, 1)

\* The 16 bits of n from bit 16 * k up
Chunk16(n, k) ==
  LET t == Shr(n, 16 * k) IN FromInt((Limb(t, 1) + Radix * Limb(t, 2)) % 65536)

\* w, with v evaluated first.  TLC evaluates a definition where its value is
\* first needed, which can be deep inside w; this keeps its evaluation shallow.
First(v, w) == IF v = v THEN w ELSE w

\* Square root by digits of 8 bits.  prev is the root of the digits of n taken
\* so far and what they leave; cur is that remainder with the next 16 bits of
\* n under it, twice is 2 * prev.root * 2^8, and d a digit of the root.

\* the root prev.root * 2^8 + d still fits under cur
Fits(twice, cur, d) ==
  BigCmp(MulSmall(BigAdd(twice, FromInt(d)), d), cur) <= 0

\* the largest d in from .. from + 15 * step, in steps of step, that fits
LargestFit(twice, cur, from, step) ==
  from + step * (CHOOSE h \in 0..15 :
                   /\ Fits(twice, cur, from + step * h)
                   /\ h < 15 => ~Fits(twice, cur, from + step * (h + 1)))

WithDigit(prev, cur, twice, d) ==
  First(d, [root |-> BigAdd(Shl(prev.root, 8), FromInt(d)),
            rem  |-> BigSub(cur, MulSmall(BigAdd(twice, FromInt(d)), d))])

FindDigit(prev, cur, twice) ==
  First(cur, First(twice,
    WithDigit(prev, cur, twice,
              LargestFit(twice, cur, LargestFit(twice, cur, 0, 16), 1))))

NextDigit(prev, chunk) ==
  FindDigit(prev, BigAdd(Shl(prev.rem, 16), chunk), Shl(prev.root, 9))

\* from prev, the root of the digits of n above digit k (digit k is bits
\* 16 * k .. 16 * k + 15 of n), to the root of them all
RECURSIVE IsqrtFrom(_, _, _)
IsqrtFrom(n, prev, k) ==
  First(prev,
        IF k < 0 THEN prev
        ELSE IsqrtFrom(n, NextDigit(prev, Chunk16(n, k)), k - 1))

\* [root |-> floor(sqrt(n)), rem |-> n - root^2]
Isqrt(n) == IsqrtFrom(n, [root |-> <<>>, rem |-> <<>>], BitLen(n) \div 16)

--------------------------------------------------------------------------
(* The Number type: a finite non-negative binary64 value m * 2^e, held as *)
(* [m |-> limbs, e |-> exponent] with m odd, or m = <<>> and e = 0 for +0. *)
(* The model's inputs stay far from the exponent range's ends, so neither  *)
(* overflow to Infinity nor subnormal results arise.                       *)

MantissaBits == 53

Canon(m, e) ==
  IF m = <<>> THEN [m |-> <<>>, e |-> 0]
  ELSE LET z == TrailingZeros(m) IN [m |-> Shr(m, z), e |-> e + z]

\* The Number nearest to v, ties to the even significand, where v = m * 2^e
\* when ~sticky and m * 2^e < v < (m + 1) * 2^e when sticky (then m carries at
\* least MantissaBits + 2 bits).
RoundNearestEven(m, e, sticky) ==
  IF BitLen(m) <= MantissaBits THEN Canon(m, e)
  ELSE LET d    == BitLen(m) - MantissaBits
           q    == Shr(m, d)
           half == Bit(m, d - 1) = 1
           rest == sticky \/ ~LowBitsZero(m, d - 1)
           up   == half /\ (rest \/ Bit(q, 0) = 1)
       IN  Canon(IF up THEN BigAdd(q, <<1>>) ELSE q, e + d)

Num(n) == Canon(FromInt(n), 0)

\* exact order of two Numbers: -1, 0, 1
NumCmp(x, y) ==
  LET e == IF x.e < y.e THEN x.e ELSE y.e
  IN  BigCmp(Shl(x.m, x.e - e), Shl(y.m, y.e - e))

\* The square root of m * 2^e, e even, rounded: m carries 2 * MantissaBits + 3
\* bits or more, so its integer root carries MantissaBits + 2 or more
SqrtRounded(r, e) == RoundNearestEven(r.root, e \div 2, r.rem /= <<>>)

SqrtScaled(x, s) == SqrtRounded(Isqrt(Shl(x.m, s)), x.e - s)

\* the shift that gives x.m the bits SqrtRounded needs and leaves x.e - s even
SqrtShift(x) ==
  LET s0 == 2 * MantissaBits + 4 - BitLen(x.m)
  IN  IF (x.e - s0) % 2 = 0 THEN s0 ELSE s0 + 1

\* Math.sqrt: the correctly rounded square root
MathSqrt(x) == IF x.m = <<>> THEN x ELSE SqrtScaled(x, SqrtShift(x))

\* Math.floor of a non-negative Number
MathFloor(x) == IF x.e >= 0 THEN x ELSE Canon(Shr(x.m, -x.e), 0)

\* x + y
NumAdd(x, y) ==
  LET e == IF x.e < y.e THEN x.e ELSE y.e
  IN  RoundNearestEven(BigAdd(Shl(x.m, x.e - e), Shl(y.m, y.e - e)), e, FALSE)

\* x - y for x >= y
NumSub(x, y) ==
  LET e == IF x.e < y.e THEN x.e ELSE y.e
  IN  RoundNearestEven(BigSub(Shl(x.m, x.e - e), Shl(y.m, y.e - e)), e, FALSE)

\* x * y
NumMul(x, y) == RoundNearestEven(BigMul(x.m, y.m), x.e + y.e, FALSE)

\* x % 2 === 0 for a non-negative Number
IsEvenNum(x) == x.m = <<>> \/ x.e >= 1

--------------------------------------------------------------------------
(* Strings: a string is the sequence of its characters. *)

LowerLetters ==
  << "a", "b", "c", "d", "e", "f", "g", "h", "i", "j", "k", "l", "m",
     "n", "o", "p", "q", "r", "s", "t", "u", "v", "w", "x", "y", "z" >>

UpperLetters ==
  << "A", "B", "C", "D", "E", "F", "G", "H", "I", "J", "K", "L", "M",
     "N", "O", "P", "Q", "R", "S", "T", "U", "V", "W", "X", "Y", "Z" >>

Digits == << "0", "1", "2", "3", "4", "5", "6", "7", "8", "9" >>

UpperChar(c) ==
  IF \E i \in 1..26 : LowerLetters[i] = c
  THEN UpperLetters[CHOOSE i \in 1..26 : LowerLetters[i] = c]
  ELSE c

\* String.prototype.toUpperCase
ToUpperCase(s) == [i \in 1..Len(s) |-> UpperChar(s[i])]

\* String.prototype.trim (the inputs' only white space is the blank)
StrTrim(s) ==
  LET inked == {i \in 1..Len(s) : s[i] /= " "}
  IN  IF inked = {} THEN <<>>
      ELSE SubSeq(s, CHOOSE i \in inked : \A j \in inked : i <= j,
                     CHOOSE i \in inked : \A j \in inked : i >= j)

\* String.prototype.includes
Contains(t, s) ==
  \E i \in 0..(Len(t) - Len(s)) : \A j \in 1..Len(s) : t[i + j] = s[j]

IsDigit(c) == \E i \in 1..10 : Digits[i] = c

DigitValue(c) == (CHOOSE i \in 1..10 : Digits[i] = c) - 1

\* 'Price for ' (part_003:164, App.tsx:16)
TooLowPrefix ==
  << "P", "r", "i", "c", "e", " ", "f", "o", "r", " " >>

\* the text after the symbol (part_003:164, App.tsx:16)
TooLowSuffix ==
  << " ", "i", "s", " ", "t", "o", "o", " ", "l", "o", "w", " ", "t", "o",
     " ", "g", "e", "n", "e", "r", "a", "t", "e", " ", "m", "e", "a", "n",
     "i", "n", "g", "f", "u", "l", " ", "t", "r", "e", "n", "d", " ", "l",
     "i", "n", "e", "s", " ", "(", "m", "u", "s", "t", " ", "b", "e", " ",
     ">", "=", " ", "4", ")", "." >>

\* App.tsx:171
TooLowManual ==
  << "P", "r", "i", "c", "e", " ", "i", "s", " ", "t", "o", "o", " ", "l",
     "o", "w", " ", "t", "o", " ", "g", "e", "n", "e", "r", "a", "t", "e",
     " ", "m", "e", "a", "n", "i", "n", "g", "f", "u", "l", " ", "t", "r",
     "e", "n", "d", " ", "l", "i", "n", "e", "s", ".", " ", "P", "l", "e",
     "a", "s", "e", " ", "e", "n", "t", "e", "r", " ", "a", " ", "p", "r",
     "i", "c", "e", " ", "g", "r", "e", "a", "t", "e", "r", " ", "t", "h",
     "a", "n", " ", "o", "r", " ", "e", "q", "u", "a", "l", " ", "t", "o",
     " ", "4", "." >>

\* the words the too-low messages share
TooLowWords ==
  << "t", "o", "o", " ", "l", "o", "w" >>

\* part_003:219, App.tsx:79
InvalidPricePrefix ==
  << "C", "o", "u", "l", "d", " ", "n", "o", "t", " ", "d", "e", "t", "e",
     "r", "m", "i", "n", "e", " ", "a", " ", "v", "a", "l", "i", "d", " ",
     "p", "r", "i", "c", "e", " ", "f", "o", "r", " ", "\"" >>

\* part_003:219, App.tsx:79
InvalidPriceSuffix ==
  << "\"", ".", " ", "P", "l", "e", "a", "s", "e", " ", "c", "h", "e", "c",
     "k", " ", "t", "h", "e", " ", "s", "y", "m", "b", "o", "l", " ", "a",
     "n", "d", " ", "t", "r", "y", " ", "a", "g", "a", "i", "n", "." >>

\* App.tsx:79
InvalidPriceFormTail ==
  << " ", "T", "h", "e", " ", "m", "o", "d", "e", "l", " ", "m", "a", "y",
     " ", "n", "o", "t", " ", "h", "a", "v", "e", " ", "a", "c", "c", "e",
     "s", "s", " ", "t", "o", " ", "r", "e", "a", "l", "-", "t", "i", "m",
     "e", " ", "d", "a", "t", "a", " ", "f", "o", "r", " ", "t", "h", "i",
     "s", " ", "a", "s", "s", "e", "t", "." >>

\* App.tsx:87
FetchFailedText ==
  << "F", "a", "i", "l", "e", "d", " ", "t", "o", " ", "f", "e", "t", "c",
     "h", " ", "t", "h", "e", " ", "p", "r", "i", "c", "e", " ", "f", "r",
     "o", "m", " ", "t", "h", "e", " ", "A", "P", "I", ".", " ", "P", "l",
     "e", "a", "s", "e", " ", "t", "r", "y", " ", "a", "g", "a", "i", "n",
     " ", "l", "a", "t", "e", "r", "." >>

\* App.tsx:53
EmptySymbolText ==
  << "P", "l", "e", "a", "s", "e", " ", "e", "n", "t", "e", "r", " ", "a",
     "n", " ", "a", "s", "s", "e", "t", " ", "s", "y", "m", "b", "o", "l",
     "." >>

\* App.tsx:209
InvalidManualText ==
  << "P", "l", "e", "a", "s", "e", " ", "e", "n", "t", "e", "r", " ", "a",
     " ", "v", "a", "l", "i", "d", ",", " ", "p", "o", "s", "i", "t", "i",
     "v", "e", " ", "n", "u", "m", "b", "e", "r", " ", "f", "o", "r", " ",
     "t", "h", "e", " ", "p", "r", "i", "c", "e", "." >>

\* part_003:245
UnexpectedErrorText ==
  << "A", "n", " ", "u", "n", "e", "x", "p", "e", "c", "t", "e", "d", " ",
     "e", "r", "r", "o", "r", " ", "o", "c", "c", "u", "r", "r", "e", "d",
     ".", " ", "P", "l", "e", "a", "s", "e", " ", "t", "r", "y", " ", "a",
     "g", "a", "i", "n", "." >>

\* part_003:150
GreetingText ==
  << "H", "e", "l", "l", "o", "!", " ", "I", " ", "c", "a", "n", " ", "g",
     "e", "n", "e", "r", "a", "t", "e", " ", "a", " ", "P", "i", "n", "e",
     " ", "S", "c", "r", "i", "p", "t", " ", "f", "o", "r", " ", "y", "o",
     "u", ".", " ", "P", "l", "e", "a", "s", "e", " ", "e", "n", "t", "e",
     "r", " ", "a", "n", " ", "a", "s", "s", "e", "t", " ", "s", "y", "m",
     "b", "o", "l", " ", "t", "o", " ", "g", "e", "t", " ", "s", "t", "a",
     "r", "t", "e", "d", " ", "(", "e", ".", "g", ".", ",", " ", "B", "T",
     "C", "U", "S", "D", ",", " ", "A", "A", "P", "L", ")", "." >>

\* the TypeError of priceText.replace on an undefined text (part_003:215, App.tsx:75)
UndefinedReplaceText ==
  << "C", "a", "n", "n", "o", "t", " ", "r", "e", "a", "d", " ", "p", "r",
     "o", "p", "e", "r", "t", "i", "e", "s", " ", "o", "f", " ", "u", "n",
     "d", "e", "f", "i", "n", "e", "d", " ", "(", "r", "e", "a", "d", "i",
     "n", "g", " ", "'", "r", "e", "p", "l", "a", "c", "e", "'", ")" >>

\* the message of an Error the external call rejects with
NetworkErrorText ==
  << "f", "e", "t", "c", "h", " ", "f", "a", "i", "l", "e", "d" >>

--------------------------------------------------------------------------
(* parseFloat *)

\* Not-a-Number: the one Number that is no m * 2^e
NaN == [nan |-> TRUE]

IsNaN(x) == "nan" \in DOMAIN x

RECURSIVE ModSmallFrom(_, _, _, _)
ModSmallFrom(a, k, i, r) ==
  IF i = 0 THEN r ELSE ModSmallFrom(a, k, i - 1, (r * Radix + a[i]) % k)

\* a mod k for 0 < k <= Radix
ModSmall(a, k) == ModSmallFrom(a, k, Len(a), 0)

\* [q |-> floor(a / 10^f), inexact |-> whether a remainder was dropped]
RECURSIVE DivPow10(_, _)
DivPow10(a, f) ==
  IF f = 0 THEN [q |-> a, inexact |-> FALSE]
  ELSE LET r == DivPow10(DivSmall(a, 10), f - 1)
       IN  [q |-> r.q, inexact |-> r.inexact \/ ModSmall(a, 10) /= 0]

\* the natural a string of decimal digits denotes
RECURSIVE DigitsNat(_, _)
DigitsNat(ds, n) ==
  IF n = 0 THEN <<>>
  ELSE BigAdd(MulSmall(DigitsNat(ds, n - 1), 10), FromInt(DigitValue(ds[n])))

\* The Number nearest to d / 10^f
FromDecimal(d, f) ==
  IF d = <<>> THEN Canon(<<>>, 0)
  ELSE LET need == MantissaBits + 3 + 4 * f - BitLen(d)
           k    == IF need > 0 THEN need ELSE 0
           r    == DivPow10(Shl(d, k), f)
       IN  RoundNearestEven(r.q, -k, r.inexact)

\* length of the run of digits of s from position i
DigitRun(s, i) ==
  LET stops == {j \in i..Len(s) : ~IsDigit(s[j])}
  IN  IF stops = {} THEN Len(s) - i + 1
      ELSE (CHOOSE j \in stops : \A k \in stops : j <= k) - i

\* the number a string without sign, exponent or leading white space starts
\* with: the longest prefix digits [. digits] or . digits, NaN when there is
\* none
ParseUnsigned(s) ==
  LET ni   == DigitRun(s, 1)
      dot  == ni < Len(s) /\ s[ni + 1] = "."
      nf   == IF dot THEN DigitRun(s, ni + 2) ELSE 0
      digs == SubSeq(s, 1, ni) \o SubSeq(s, ni + 2, ni + 1 + nf)
  IN  IF ni + nf = 0 THEN NaN
      ELSE FromDecimal(DigitsNat(digs, ni + nf), nf)

\* a Number below zero, or -0: the negative of the Number x
Negative(x) == [neg |-> x]

IsNegative(x) == "neg" \in DOMAIN x

\* -x, where -NaN is NaN
Negated(x) == IF IsNaN(x) THEN x ELSE Negative(x)

\* parseFloat of a string without exponent or leading white space
ParseFloat(s) ==
  IF s /= <<>> /\ s[1] = "-"
  THEN Negated(ParseUnsigned(Tail(s)))
  ELSE ParseUnsigned(s)

\* priceText.replace(/[^0-9.]/g, '')
CleanPriceText(priceText) ==
  SelectSeq(priceText, LAMBDA c : IsDigit(c) \/ c = ".")

--------------------------------------------------------------------------
(* generatePineScript: the level generator.  The three copies of it (the   *)
(* chat App's, the form App's and the manual-price App's) compute the same  *)
(* base and levels and differ in the template, in the too-low message and   *)
(* in how the outcome leaves the function.  JavaScript's index i is i + 1   *)
(* here: adjustedLevels[0] is AdjustedLevels(base)[1].                      *)

\* const base = Math.floor(Math.sqrt(basePrice))
Base(basePrice) == MathFloor(MathSqrt(basePrice))

\* A gate that also turns base = 2 away: what C2 must tell from TooLow
TooLowAtMost(base) == NumCmp(base, Num(2)) <= 0

\* base < 2
TooLow(base) == NumCmp(base, Num(2)) < 0

\* (base + k) * (base + k) for k in -2..2, as the code writes each factor
Offset(base, k) ==
  IF k < 0 THEN NumSub(base, Num(-k))
  ELSE IF k > 0 THEN NumAdd(base, Num(k))
  ELSE base

Square(x) == NumMul(x, x)

Levels(base) == [i \in 1..5 |-> Square(Offset(base, i - 3))]

\* level % 2 === 0 ? level + 1 : level
Adjust(level) == IF IsEvenNum(level) THEN NumAdd(level, Num(1)) ELSE level

AdjustedLevels(base) ==
  LET levels == Levels(base) IN [i \in 1..5 |-> Adjust(levels[i])]

\* One line of the rendered script: the statement it is, its fixed text (a
\* plot's title), and the strings and Numbers interpolated into it, in order.
Line(stmt, text, syms, nums, linewidth) ==
  [stmt |-> stmt, text |-> text, syms |-> syms, nums |-> nums,
   linewidth |-> linewidth]

\* Titles in another order: what C6 must tell from PlotTitles
PlotTitlesSwapped ==
  << "Level -1", "Level -2", "Base Level", "Level +1", "Level +2" >>

PlotTitles == << "Level -2", "Level -1", "Base Level", "Level +1", "Level +2" >>

PlotWidths == << 2, 2, 3, 2, 2 >>

PlotLines(adjustedLevels) ==
  [i \in 1..5 |->
     Line("plot", PlotTitles[i], <<>>, <<adjustedLevels[i]>>, PlotWidths[i])]

LogicLine ==
  Line("comment",
       "// Logic: If a calculated level is an even number, 1 is added to it.",
       <<>>, <<>>, 0)

IndicatorLine ==
  Line("indicator",
       "indicator(\"Perfect Square Trendlines (Generated)\", overlay=true)",
       <<>>, <<>>, 0)

BlankLine == Line("blank", "", <<>>, <<>>, 0)

\* the chat App's template, trimmed
ChatScript(basePrice, forSymbol, base, adjustedLevels) ==
  << Line("version", "//@version=5", <<>>, <<>>, 0),
     IndicatorLine,
     BlankLine,
     Line("comment", "// Generated for symbol: ${} around price: ${}",
          <<ToUpperCase(forSymbol)>>, <<basePrice>>, 0),
     Line("comment", "// Base perfect square root: ${}", <<>>, <<base>>, 0),
     LogicLine,
     BlankLine >>
  \o PlotLines(adjustedLevels)

\* the form App's template, trimmed
FormScript(basePrice, forSymbol, base, adjustedLevels) ==
  << Line("version", "//@version=5", <<>>, <<>>, 0),
     IndicatorLine,
     BlankLine,
     Line("comment", "// Generated for symbol: ${} around price: ${}",
          <<ToUpperCase(forSymbol)>>, <<basePrice>>, 0),
     Line("comment", "// Base perfect square root: ${}", <<>>, <<base>>, 0),
     LogicLine,
     BlankLine,
     Line("comment", "// --- Trendline Levels ---", <<>>, <<>>, 0) >>
  \o PlotLines(adjustedLevels)

\* the manual-price App's template, trimmed
ManualScript(basePrice, base, adjustedLevels) ==
  << Line("version", "//@version=6", <<>>, <<>>, 0),
     IndicatorLine,
     BlankLine,
     Line("comment", "// Generated for a price around: ${}",
          <<>>, <<basePrice>>, 0),
     Line("comment", "// Base perfect square root: ${}", <<>>, <<base>>, 0),
     LogicLine,
     BlankLine,
     Line("comment", "// --- Trendline Levels ---", <<>>, <<>>, 0) >>
  \o PlotLines(adjustedLevels)

\* A message that leaves the symbol out: what C3 must tell from TooLowMessage
TooLowNoSymbol(forSymbol) == TooLowPrefix \o TooLowSuffix

\* `Price for ${forSymbol.toUpperCase()} is too low ... (must be >= 4).`
TooLowMessage(forSymbol) ==
  TooLowPrefix \o ToUpperCase(forSymbol) \o TooLowSuffix

\* The chat App's generatePineScript from its second statement on
ChatRender(basePrice, forSymbol, base) ==
  IF TooLow(base)
  THEN [error |-> TooLowMessage(forSymbol)]
  ELSE [script |->
          ChatScript(basePrice, forSymbol, base, AdjustedLevels(base))]

\* The chat App's generatePineScript: { script } or { error }
ChatGenerate(basePrice, forSymbol) ==
  ChatRender(basePrice, forSymbol, Base(basePrice))

\* The form App's generatePineScript from its second statement on
FormRender(basePrice, forSymbol, base) ==
  IF TooLow(base)
  THEN [script |-> <<>>, error |-> TooLowMessage(forSymbol)]
  ELSE [script |->
          FormScript(basePrice, forSymbol, base, AdjustedLevels(base)),
        error |-> <<>>]

\* The form App's generatePineScript: what it leaves in script and error
FormGenerate(basePrice, forSymbol) ==
  FormRender(basePrice, forSymbol, Base(basePrice))

\* The manual-price App's generatePineScript from its second statement on
ManualRender(basePrice, base) ==
  IF TooLow(base)
  THEN [script |-> <<>>, error |-> TooLowManual]
  ELSE [script |-> ManualScript(basePrice, base, AdjustedLevels(base)),
        error |-> <<>>]

\* The manual-price App's generatePineScript: what it leaves in script and error
ManualGenerate(basePrice) == ManualRender(basePrice, Base(basePrice))

--------------------------------------------------------------------------
(* State *)

VARIABLES
  app,         \* the App revision that runs: "chat", "form" or "manual"
  messages,    \* chat: the message list
  inputValue,  \* chat: the input's text
  symbol,      \* form: the input's text
  price,       \* manual: the input's text
  script,      \* form, manual: the rendered script, <<>> for ''
  error,       \* form, manual: the error shown, <<>> for ''
  isLoading,   \* chat, form: a request is outstanding
  pending,     \* the handler runs suspended at their await, oldest first
  now,         \* the clock Date.now() reads
  uncaught,    \* exceptions that left a handler
  submits,     \* submissions accepted so far
  last,        \* how the latest handler run ended
  basePrice,   \* generator harness: the arguments of the call
  forSymbol,
  result,      \* generator harness: what the latest call returned
  calls,       \* generator harness: calls made
  settled,     \* how the latest price request ended
  requests,    \* price requests issued so far
  worker,      \* service worker: its state in the life cycle
  caches,      \* service worker: the caches of the origin, oldest first
  events       \* service worker: the fetch events dispatched to it

vars ==
  << app, messages, inputValue, symbol, price, script, error, isLoading,
     pending, now, uncaught, submits, last, basePrice, forSymbol, result,
     calls, settled, requests, worker, caches, events >>

appVars ==
  << messages, inputValue, symbol, price, script, error, isLoading, pending,
     now, uncaught, submits, last, settled, requests >>

\* the service worker's variables
swVars == << worker, caches, events >>

\* the service worker before it is registered
NoWorker == worker = "none" /\ caches = <<>> /\ events = <<>>

Apps == {"chat", "form", "manual"}

\* what a function without a return statement returns
Undefined == [undefined |-> TRUE]

\* message contents: a string, the loading indicator, or the script view
TextContent(text) == [kind |-> "text", text |-> text, script |-> <<>>]

LoadingContent == [kind |-> "loading", text |-> <<>>, script |-> <<>>]

ScriptContent(heading, code) ==
  [kind |-> "script", text |-> heading, script |-> code]

Message(id, sender, content) ==
  [id |-> id, sender |-> sender, content |-> content]

\* no price request has ended yet
NoSettlement == [kind |-> "none"]

\* useState's initial values
InitialMessages == << Message(0, "bot", TextContent(GreetingText)) >>

--------------------------------------------------------------------------
(* The generator on its own: every call of generatePineScript with bounded *)
(* arguments, in the state its caller leaves when it calls.                 *)

MaxPrice == 40

MaxRoot == 6

MaxCalls == 2

\* The Number just below x > 0
NumPred(x) ==
  IF x.m = <<1>>
  THEN Canon(BigSub(Shl(<<1>>, MantissaBits), <<1>>), x.e - MantissaBits)
  ELSE LET pad == MantissaBits - BitLen(x.m)
       IN  Canon(BigSub(Shl(x.m, pad), <<1>>), x.e - pad)

Symbols ==
  { <<"B", "T", "C">>, <<"b", "t", "c">>, <<"A", "a", "p", "l">> }

\* whole prices, the prices the specification names (100, 50000, 3.9), the
\* Numbers just below a square, and prices whose levels pass 2^53
Prices ==
  {Num(n) : n \in 1..MaxPrice}
  \cup {Num(100), Num(50000), ParseFloat(<<"3", ".", "9">>)}
  \cup {NumPred(Num(n * n)) : n \in 2..MaxRoot}
  \cup {NumMul(Num(100000000), Num(100000000)), Canon(<<1>>, 106)}

GenInit ==
  /\ app \in Apps
  /\ basePrice \in Prices
  /\ forSymbol \in (IF app = "manual" THEN {<<>>} ELSE Symbols)
  /\ result = Undefined
  /\ calls = 0
  /\ messages =
       IF app = "chat"
       THEN InitialMessages
            \o << Message(1, "user", TextContent(forSymbol)),
                  Message(2, "bot", LoadingContent) >>
       ELSE <<>>
  /\ inputValue = <<>>
  /\ symbol = (IF app = "form" THEN forSymbol ELSE <<>>)
  /\ price = <<>>
  /\ script = <<>>
  /\ error \in (IF app = "manual" THEN {<<>>, InvalidManualText} ELSE {<<>>})
  /\ isLoading = (app /= "manual")
  /\ pending = <<>>
  /\ now = 1
  /\ uncaught = 0
  /\ submits = 1
  /\ last = "none"
  /\ settled = NoSettlement
  /\ requests = (IF app = "manual" THEN 0 ELSE 1)
  /\ NoWorker

\* A call that also posts a message: what C7 must tell from CallChatGenerate
CallChatGenerateLogging ==
  /\ app = "chat"
  /\ calls < MaxCalls
  /\ result' = ChatGenerate(basePrice, forSymbol)
  /\ calls' = calls + 1
  /\ messages' = Append(messages, Message(now, "bot", LoadingContent))
  /\ UNCHANGED << app, inputValue, symbol, price, script, error, isLoading,
                  pending, now, uncaught, submits, last, basePrice,
                  forSymbol, settled, requests >>
  /\ UNCHANGED swVars

CallChatGenerate ==
  /\ app = "chat"
  /\ calls < MaxCalls
  /\ result' = ChatGenerate(basePrice, forSymbol)
  /\ calls' = calls + 1
  /\ UNCHANGED << app, appVars, basePrice, forSymbol >>
  /\ UNCHANGED swVars

CallFormGenerate ==
  /\ app = "form"
  /\ calls < MaxCalls
  /\ \E r \in {FormGenerate(basePrice, forSymbol)} :
       script' = r.script /\ error' = r.error
  /\ result' = Undefined
  /\ calls' = calls + 1
  /\ UNCHANGED << app, messages, inputValue, symbol, price, isLoading,
                  pending, now, uncaught, submits, last, basePrice,
                  forSymbol, settled, requests >>
  /\ UNCHANGED swVars

CallManualGenerate ==
  /\ app = "manual"
  /\ calls < MaxCalls
  /\ \E r \in {ManualGenerate(basePrice)} :
       script' = r.script /\ error' = r.error
  /\ result' = Undefined
  /\ calls' = calls + 1
  /\ UNCHANGED << app, messages, inputValue, symbol, price, isLoading,
                  pending, now, uncaught, submits, last, basePrice,
                  forSymbol, settled, requests >>
  /\ UNCHANGED swVars

GenNext == CallChatGenerate \/ CallFormGenerate \/ CallManualGenerate

SpecGen == GenInit /\ [][GenNext]_vars

--------------------------------------------------------------------------
(* What a call handed back, and the exact values its Numbers stand for *)

Called == calls > 0

\* the rendered script of the latest call: the chat App's generator returns
\* it, the other two leave it in script
OutScript ==
  IF app = "chat"
  THEN (IF "script" \in DOMAIN result THEN result.script ELSE <<>>)
  ELSE script

\* the error of the latest call
OutError ==
  IF app = "chat"
  THEN (IF "error" \in DOMAIN result THEN result.error ELSE <<>>)
  ELSE error

Succeeded == Called /\ OutScript /= <<>>

\* ${base} of the rendered script
BaseOf(s) == s[5].nums[1]

\* ${adjustedLevels[i - 1]} of the rendered script
LevelOf(s, i) == s[Len(s) - 5 + i].nums[1]

\* x + y, x - y (x >= y) and x * y without rounding
ExactSum(x, y) ==
  LET e == IF x.e < y.e THEN x.e ELSE y.e
  IN  [m |-> BigAdd(Shl(x.m, x.e - e), Shl(y.m, y.e - e)), e |-> e]

ExactDiff(x, y) ==
  LET e == IF x.e < y.e THEN x.e ELSE y.e
  IN  [m |-> BigSub(Shl(x.m, x.e - e), Shl(y.m, y.e - e)), e |-> e]

ExactProduct(x, y) == [m |-> BigMul(x.m, y.m), e |-> x.e + y.e]

\* (b + k)^2 in the integers
ExactSquare(b, k) ==
  LET t == IF k < 0 THEN ExactDiff(b, Num(-k)) ELSE ExactSum(b, Num(k))
  IN  ExactProduct(t, t)

\* l + 1 when the integer l is even, else l
ExactAdjusted(l) ==
  IF IsEvenNum(Canon(l.m, l.e)) THEN ExactSum(l, Num(1)) ELSE l

SameValue(x, y) == NumCmp(x, y) = 0

\* b is the integer floor(sqrt(x))
IsFloorSqrt(b, x) ==
  /\ b.e >= 0
  /\ NumCmp(ExactProduct(b, b), x) <= 0
  /\ NumCmp(x, ExactSquare(b, 1)) < 0

IsOddInteger(x) == x.m /= <<>> /\ x.e = 0

NumSeq(ns) == [i \in 1..Len(ns) |-> Num(ns[i])]

LevelsOfScript(s) == [i \in 1..5 |-> LevelOf(s, i)]

--------------------------------------------------------------------------
(* Claims about the generator, under SpecGen *)

\* C1: for every positive basePrice the generator computes
\* base = floor(sqrt(basePrice)) exactly and, when it succeeds, the levels
\* (base + (i - 2))^2, each plus 1 when even; basePrice 100 gives base 10 and
\* [65,81,101,121,145], basePrice 50000 gives base 223 and
\* [48841,49285,49729,50177,50625].
C1_ExactBaseAndLevels ==
  Succeeded =>
    LET base == BaseOf(OutScript)
    IN  /\ IsFloorSqrt(base, basePrice)
        /\ \A i \in 1..5 :
             SameValue(LevelOf(OutScript, i),
                       ExactAdjusted(ExactSquare(base, i - 3)))
        /\ basePrice = Num(100) =>
             /\ base = Num(10)
             /\ LevelsOfScript(OutScript) = NumSeq(<<65, 81, 101, 121, 145>>)
        /\ basePrice = Num(50000) =>
             /\ base = Num(223)
             /\ LevelsOfScript(OutScript)
                  = NumSeq(<<48841, 49285, 49729, 50177, 50625>>)

\* C2: for every basePrice >= 4 the generator hands back a rendered script and
\* no error; the only error it ever hands back is the one of the base < 2 gate.
C2_ScriptFromFour ==
  /\ Called /\ NumCmp(basePrice, Num(4)) >= 0 =>
       OutScript /= <<>> /\ OutError = <<>>
  /\ Called /\ OutError /= <<>> =>
       /\ NumCmp(Base(basePrice), Num(2)) < 0
       /\ Contains(OutError, TooLowWords)

\* C2's case: the smallest accepted price has been rendered
C2_Witness == Called /\ basePrice = Num(4) /\ OutScript /= <<>>

\* C3 (as amended): for every basePrice < 4 the generator hands back an error
\* and no script; the message contains the words "too low" and, in the chat
\* and form versions, the symbol in upper case (the manual-price version names
\* no symbol).
C3_ErrorBelowFour ==
  Called /\ NumCmp(basePrice, Num(4)) < 0 =>
    /\ OutScript = <<>>
    /\ OutError /= <<>>
    /\ Contains(OutError, TooLowWords)
    /\ app /= "manual" => Contains(OutError, ToUpperCase(forSymbol))

\* C3's case: 3.9 for the symbol btc has been refused, naming BTC
C3_Witness ==
  /\ Called
  /\ basePrice = ParseFloat(<<"3", ".", "9">>)
  /\ forSymbol = <<"b", "t", "c">>
  /\ Contains(OutError, <<"B", "T", "C">>)

\* C3 as stated: for every basePrice < 4 the generator hands back an error and
\* no script, and the message contains the supplied symbol and "too low".
C3_AsStated ==
  Called /\ NumCmp(basePrice, Num(4)) < 0 =>
    /\ OutScript = <<>>
    /\ OutError /= <<>>
    /\ Contains(OutError, forSymbol)
    /\ Contains(OutError, TooLowWords)

\* C4: for every basePrice that passes the gate, each of the five adjusted
\* levels is an odd integer.
C4_LevelsOdd ==
  Succeeded => \A i \in 1..5 : IsOddInteger(LevelOf(OutScript, i))

\* C5: for every basePrice that passes the gate the adjusted levels are
\* non-decreasing, strictly increasing exactly when base >= 3, and the only tie
\* is at base = 2, where they are [1,1,5,9,17].
C5_LevelsOrdered ==
  Succeeded =>
    LET l      == LevelsOfScript(OutScript)
        strict == \A i \in 1..4 : NumCmp(l[i], l[i + 1]) < 0
    IN  /\ \A i \in 1..4 : NumCmp(l[i], l[i + 1]) <= 0
        /\ strict <=> NumCmp(BaseOf(OutScript), Num(3)) >= 0
        /\ ~strict =>
             /\ BaseOf(OutScript) = Num(2)
             /\ l = NumSeq(<<1, 1, 5, 9, 17>>)

\* the lines of the rendered script s before its first plot statement
HeaderOf(s) == {i \in 1..Len(s) : \A j \in 1..i : s[j].stmt /= "plot"}

\* the header of s has a comment carrying basePrice, a comment carrying base,
\* and five plot statements end s, in index order, each with its label
RendersPriceBaseAndPlots(s) ==
  /\ \E i \in HeaderOf(s) :
       s[i].stmt = "comment" /\ s[i].nums = <<basePrice>>
  /\ \E i \in HeaderOf(s) :
       s[i].stmt = "comment" /\ s[i].nums = <<Base(basePrice)>>
  /\ {i \in 1..Len(s) : s[i].stmt = "plot"} = (Len(s) - 4)..Len(s)
  /\ \A i \in 1..5 :
       /\ s[Len(s) - 5 + i].text
            = << "Level -2", "Level -1", "Base Level", "Level +1",
                 "Level +2" >>[i]
       /\ s[Len(s) - 5 + i].nums = <<AdjustedLevels(Base(basePrice))[i]>>

\* some header comment of s carries the symbol in upper case
RendersUpperSymbol(s) ==
  \E i \in HeaderOf(s) :
    s[i].stmt = "comment" /\ s[i].syms = <<ToUpperCase(forSymbol)>>

\* C6 (as amended): the rendered script carries basePrice and base in its
\* header comments and ends with exactly five plot statements in index order
\* 0..4, labelled "Level -2", "Level -1", "Base Level", "Level +1",
\* "Level +2"; the chat and form versions also carry the upper-cased symbol in
\* a header comment, the manual-price version carries no symbol at all.
C6_ScriptLayout ==
  Succeeded =>
    /\ RendersPriceBaseAndPlots(OutScript)
    /\ app /= "manual" => RendersUpperSymbol(OutScript)
    /\ app = "manual" => \A i \in 1..Len(OutScript) : OutScript[i].syms = <<>>

\* C6's case: a lower-case symbol has been rendered, upper-cased, with 100
C6_Witness ==
  /\ Succeeded
  /\ app = "chat"
  /\ forSymbol = <<"b", "t", "c">>
  /\ basePrice = Num(100)
  /\ OutScript[4].syms = << <<"B", "T", "C">> >>
  /\ OutScript[8].text = "Level -2"

\* C6 as stated: every rendered script embeds the upper-cased symbol, basePrice
\* and base in its header comments and has the five labelled plot statements.
C6_AsStated ==
  Succeeded =>
    /\ RendersPriceBaseAndPlots(OutScript)
    /\ RendersUpperSymbol(OutScript)

--------------------------------------------------------------------------
(* The chat App and the form App: typing, submitting, and the settling of  *)
(* the price request the submission awaits.  A handler runs without        *)
(* interruption up to its await and again from the settling to its end, so *)
(* each of the two runs is one step.  Date.now() reads the clock now.      *)

MaxSubmits == 2

MaxClock == 1

FetchApps == {"chat", "form"}

\* what the user types into the text input
Typed == { <<" ">>, <<"b", "t", "c">> }

\* response.text of a resolved request
ReplyTexts ==
  { <<"1", "0", "0">>, <<"3", ".", "9">>, <<"n", "/", "a">>, <<"0">>,
    <<"9", " ", "a", "t", " ", "1", "0">> }

\* an Error object
Error(message) == [message |-> message]

\* What the SDK throws or rejects with: Error objects, whose message may be
\* empty
Errors == { Error(NetworkErrorText), Error(<<>>) }

\* How the request ends: resolved with a text, resolved without one
\* (response.text is undefined), or rejected
Settlements ==
  {[kind |-> "resolved", text |-> t] : t \in ReplyTexts}
  \cup {[kind |-> "resolvedNoText"]}
  \cup {[kind |-> "rejected", err |-> err] : err \in Errors}

\* new GoogleGenAI or the call of generateContent threw err: no request went
\* out
Threw(err) == [kind |-> "threw", err |-> err]

\* how a block ends
Returned(v) == [thrown |-> FALSE, value |-> v]

Thrown(err) == [thrown |-> TRUE, err |-> err]

NoContent == [kind |-> "none", text |-> <<>>, script |-> <<>>]

\* parseFloat(priceText.replace(/[^0-9.]/g, '')), for a request that resolved
\* with a text
ReplyPrice(outcome) ==
  IF outcome.kind = "resolved"
  THEN ParseFloat(CleanPriceText(outcome.text))
  ELSE NaN

\* A test that lets zero through: what C11 must tell from ValidPrice
ValidPriceOrZero(numericPrice) ==
  /\ ~IsNaN(numericPrice)
  /\ ~IsNegative(numericPrice)
  /\ NumCmp(numericPrice, Num(0)) >= 0

\* !(isNaN(numericPrice) || numericPrice <= 0)
ValidPrice(numericPrice) ==
  /\ ~IsNaN(numericPrice)
  /\ ~IsNegative(numericPrice)
  /\ NumCmp(numericPrice, Num(0)) > 0

\* `Could not determine a valid price for "${symbol}". Please check ...`
InvalidPriceMessage(sym) == InvalidPricePrefix \o sym \o InvalidPriceSuffix

\* A form that lets every submit event through: what C8 must tell from
\* FormSubmitEnabled
SubmitAlwaysEnabled == TRUE

\* the form and the button let a submit event through
ChatSubmitEnabled == ~isLoading /\ StrTrim(inputValue) /= <<>>

FormSubmitEnabled == ~isLoading /\ symbol /= <<>>

\* A finally block that leaves the flag up: what C10 must tell from
\* SettledLoading
LoadingLeftOn == TRUE

\* setIsLoading(false) of the finally blocks
SettledLoading == FALSE

Init ==
  /\ app \in Apps
  /\ messages = (IF app = "chat" THEN InitialMessages ELSE <<>>)
  /\ inputValue = <<>>
  /\ symbol = <<>>
  /\ price = <<>>
  /\ script = <<>>
  /\ error = <<>>
  /\ isLoading = FALSE
  /\ pending = <<>>
  /\ now = 0
  /\ uncaught = 0
  /\ submits = 0
  /\ last = "none"
  /\ basePrice = Undefined
  /\ forSymbol = <<>>
  /\ result = Undefined
  /\ calls = 0
  /\ settled = NoSettlement
  /\ requests = 0
  /\ NoWorker

\* the clock moves on
Tick ==
  /\ now < MaxClock
  /\ now' = now + 1
  /\ UNCHANGED << app, messages, inputValue, symbol, price, script, error,
                  isLoading, pending, uncaught, submits, last, basePrice,
                  forSymbol, result, calls, settled, requests >>
  /\ UNCHANGED swVars

\* the input's onChange, chat App: setInputValue(e.target.value)
SetInputValue ==
  /\ app = "chat"
  /\ ~isLoading
  /\ \E v \in Typed \cup {<<>>} : v /= inputValue /\ inputValue' = v
  /\ UNCHANGED << app, messages, symbol, price, script, error, isLoading,
                  pending, now, uncaught, submits, last, basePrice, forSymbol,
                  result, calls, settled, requests >>
  /\ UNCHANGED swVars

\* the input's onChange, form App: setSymbol(e.target.value)
SetSymbol ==
  /\ app = "form"
  /\ ~isLoading
  /\ \E v \in Typed \cup {<<>>} : v /= symbol /\ symbol' = v
  /\ UNCHANGED << app, messages, inputValue, price, script, error, isLoading,
                  pending, now, uncaught, submits, last, basePrice, forSymbol,
                  result, calls, settled, requests >>
  /\ UNCHANGED swVars

\* the chat App's try block from the await on: the content it leaves in
\* botResponse, or what it throws; numericPrice is the price it reads and
\* generated what the generator returns for it
ChatTry(outcome, sym, numericPrice, generated) ==
  IF outcome.kind = "rejected"
  THEN Thrown(outcome.err)
  ELSE IF outcome.kind = "resolvedNoText"
  THEN Thrown(Error(UndefinedReplaceText))
  ELSE IF ~ValidPrice(numericPrice)
  THEN Thrown(Error(InvalidPriceMessage(sym)))
  ELSE IF "script" \in DOMAIN generated
  THEN Returned(ScriptContent(ToUpperCase(sym), generated.script))
  ELSE Returned(TextContent(generated.error))

\* A catch block that throws the error on: what C9 must tell from ChatCatch
CatchRethrow(err) == Thrown(err)

\* botResponse = (err as Error).message || 'An unexpected error occurred...'
ChatCatch(err) ==
  Returned(TextContent(IF err.message /= <<>> THEN err.message
                       ELSE UnexpectedErrorText))

\* A finally block that leaves the placeholder in: what C17 must tell from
\* ChatFinally
ChatFinallyKeepsPlaceholder(msgs, loadingMessageId, botResponse) ==
  Append(msgs, Message(now, "bot", botResponse))

\* A finally block that filters on the id before the placeholder's, the user
\* message's unless the clock moved: what C18 must tell from ChatFinally
ChatFinallyDropsUser(msgs, loadingMessageId, botResponse) ==
  Append(SelectSeq(msgs, LAMBDA m : m.id /= loadingMessageId - 1),
         Message(now, "bot", botResponse))

\* the finally block: the placeholder goes, the response is appended
ChatFinally(msgs, loadingMessageId, botResponse) ==
  Append(SelectSeq(msgs, LAMBDA m : m.id /= loadingMessageId),
         Message(now, "bot", botResponse))

\* the catch block for what the try block threw
ChatCaught(tried) == IF tried.thrown THEN ChatCatch(tried.err) ELSE tried

\* how a handler run ended
Ending(outcome, numericPrice, rendered) ==
  IF outcome.kind /= "resolved" THEN "failed"
  ELSE IF ~ValidPrice(numericPrice) THEN "invalidPrice"
  ELSE IF rendered THEN "script"
  ELSE "tooLow"

\* the try block is over (done), the finally block runs
ChatEnd(req, done) ==
  /\ messages' =
       ChatFinally(messages, req.loadingMessageId,
                   IF done.thrown THEN NoContent ELSE done.value)
  /\ isLoading' = SettledLoading
  /\ uncaught' = uncaught + (IF done.thrown THEN 1 ELSE 0)

\* the rest of handleSendMessage for the request req that ended as outcome
ChatResume(req, outcome, numericPrice, generated) ==
  /\ IF outcome.kind = "resolved" /\ ValidPrice(numericPrice)
     THEN /\ result' = generated
          /\ basePrice' = numericPrice
          /\ forSymbol' = req.symbol
          /\ calls' = calls + 1
          /\ last' = Ending(outcome, numericPrice,
                            "script" \in DOMAIN generated)
     ELSE /\ UNCHANGED << basePrice, forSymbol, result, calls >>
          /\ last' = Ending(outcome, numericPrice, FALSE)
  /\ ChatEnd(req, ChatCaught(ChatTry(outcome, req.symbol, numericPrice,
                                     generated)))

ChatResumeWith(req, outcome, numericPrice) ==
  ChatResume(req, outcome, numericPrice,
             ChatGenerate(numericPrice, req.symbol))

\* handleSendMessage up to its await.  thrown: what new GoogleGenAI or the
\* call of generateContent throws, if it throws.
HandleSendMessage ==
  /\ app = "chat"
  /\ submits < MaxSubmits
  /\ ChatSubmitEnabled
  /\ LET sym       == StrTrim(inputValue)
         loadingId == now + 1
         posted    == messages
                        \o << Message(now, "user", TextContent(sym)),
                              Message(loadingId, "bot", LoadingContent) >>
     IN  IF sym = <<>> \/ isLoading
         THEN UNCHANGED << messages, inputValue, isLoading, pending, uncaught,
                           submits, last, settled, requests >>
         ELSE \E thrown \in {Undefined, Error(NetworkErrorText)} :
                /\ inputValue' = <<>>
                /\ submits' = submits + 1
                /\ IF thrown = Undefined
                   THEN /\ messages' = posted
                        /\ isLoading' = TRUE
                        /\ pending' =
                             Append(pending, [symbol |-> sym,
                                              loadingMessageId |-> loadingId])
                        /\ last' = "started"
                        /\ requests' = requests + 1
                        /\ UNCHANGED << uncaught, settled >>
                   ELSE LET done == ChatCatch(thrown)
                        IN  /\ messages' =
                                 ChatFinally(posted, loadingId,
                                             IF done.thrown THEN NoContent
                                             ELSE done.value)
                            /\ isLoading' = SettledLoading
                            /\ uncaught' =
                                 uncaught + (IF done.thrown THEN 1 ELSE 0)
                            /\ last' = "failed"
                            /\ settled' = Threw(thrown)
                            /\ UNCHANGED << pending, requests >>
  /\ UNCHANGED << app, symbol, price, script, error, now, basePrice,
                  forSymbol, result, calls >>
  /\ UNCHANGED swVars

\* handleSendMessage from the settling of generateContent to its end
SettleSendMessage ==
  /\ app = "chat"
  /\ pending /= <<>>
  /\ \E outcome \in Settlements :
       /\ ChatResumeWith(Head(pending), outcome, ReplyPrice(outcome))
       /\ settled' = outcome
  /\ pending' = Tail(pending)
  /\ UNCHANGED << app, inputValue, symbol, price, script, error, now,
                  submits, requests >>
  /\ UNCHANGED swVars

\* the form App's try block from the await on: what it leaves in script and
\* error, or what it throws; numericPrice is the price it reads and generated
\* what the generator leaves in script and error for it
FormTry(outcome, sym, numericPrice, generated) ==
  IF outcome.kind = "rejected"
  THEN Thrown(outcome.err)
  ELSE IF outcome.kind = "resolvedNoText"
  THEN Thrown(Error(UndefinedReplaceText))
  ELSE IF ~ValidPrice(numericPrice)
  THEN Returned([script |-> script,
                 error  |-> InvalidPriceMessage(sym) \o InvalidPriceFormTail])
  ELSE Returned(generated)

\* A catch block that shows the error's own message: what C12 must tell from
\* FormCatch
FormCatchShowsMessage(err) ==
  Returned([script |-> script, error |-> err.message])

\* setError('Failed to fetch the price from the API. ...')
FormCatch(err) == Returned([script |-> script, error |-> FetchFailedText])

\* handleSubmit of the form App up to its await.  thrown: what
\* new GoogleGenAI or the call of generateContent throws, if it throws.
HandleSubmit ==
  /\ app = "form"
  /\ submits < MaxSubmits
  /\ FormSubmitEnabled
  /\ IF StrTrim(symbol) = <<>>
     THEN /\ error' = EmptySymbolText
          /\ script' = <<>>
          /\ last' = "emptySymbol"
          /\ UNCHANGED << isLoading, pending, uncaught, submits, settled,
                          requests >>
     ELSE \E thrown \in {Undefined, Error(NetworkErrorText)} :
            /\ submits' = submits + 1
            /\ IF thrown = Undefined
               THEN /\ isLoading' = TRUE
                    /\ error' = <<>>
                    /\ script' = <<>>
                    /\ pending' = Append(pending, [symbol |-> symbol])
                    /\ last' = "started"
                    /\ requests' = requests + 1
                    /\ UNCHANGED << uncaught, settled >>
               ELSE LET done == FormCatch(thrown)
                    IN  /\ script' = <<>>
                        /\ error' = (IF done.thrown THEN <<>>
                                     ELSE done.value.error)
                        /\ isLoading' = SettledLoading
                        /\ uncaught' =
                             uncaught + (IF done.thrown THEN 1 ELSE 0)
                        /\ last' = "failed"
                        /\ settled' = Threw(thrown)
                        /\ UNCHANGED << pending, requests >>
  /\ UNCHANGED << app, messages, inputValue, symbol, price, now, basePrice,
                  forSymbol, result, calls >>
  /\ UNCHANGED swVars

\* the catch block for what the try block threw
FormCaught(tried) == IF tried.thrown THEN FormCatch(tried.err) ELSE tried

\* the try block is over (done), the finally block runs
FormEnd(done) ==
  /\ script' = (IF done.thrown THEN script ELSE done.value.script)
  /\ error' = (IF done.thrown THEN error ELSE done.value.error)
  /\ isLoading' = SettledLoading
  /\ uncaught' = uncaught + (IF done.thrown THEN 1 ELSE 0)

\* the rest of handleSubmit for the request req that ended as outcome
FormResume(req, outcome, numericPrice, generated) ==
  /\ IF outcome.kind = "resolved" /\ ValidPrice(numericPrice)
     THEN /\ last' = Ending(outcome, numericPrice, generated.script /= <<>>)
          /\ basePrice' = numericPrice
          /\ forSymbol' = req.symbol
          /\ calls' = calls + 1
     ELSE /\ UNCHANGED << basePrice, forSymbol, calls >>
          /\ last' = Ending(outcome, numericPrice, FALSE)
  /\ FormEnd(FormCaught(FormTry(outcome, req.symbol, numericPrice,
                                generated)))

FormResumeWith(req, outcome, numericPrice) ==
  FormResume(req, outcome, numericPrice,
             FormGenerate(numericPrice, req.symbol))

\* A handler that sends the request again when it is rejected: what C13 must
\* tell from SettleSubmit
SettleSubmitRetrying ==
  /\ app = "form"
  /\ pending /= <<>>
  /\ \E outcome \in Settlements :
       IF outcome.kind = "rejected" /\ requests <= submits
       THEN /\ requests' = requests + 1
            /\ settled' = outcome
            /\ UNCHANGED << script, error, isLoading, pending, uncaught, last,
                            basePrice, forSymbol, calls >>
       ELSE /\ FormResumeWith(Head(pending), outcome, ReplyPrice(outcome))
            /\ settled' = outcome
            /\ pending' = Tail(pending)
            /\ UNCHANGED requests
  /\ UNCHANGED << app, messages, inputValue, symbol, price, now, submits,
                  result >>
  /\ UNCHANGED swVars

\* handleSubmit of the form App from the settling of generateContent to its
\* end
SettleSubmit ==
  /\ app = "form"
  /\ pending /= <<>>
  /\ \E outcome \in Settlements :
       /\ FormResumeWith(Head(pending), outcome, ReplyPrice(outcome))
       /\ settled' = outcome
  /\ pending' = Tail(pending)
  /\ UNCHANGED << app, messages, inputValue, symbol, price, now, submits,
                  result, requests >>
  /\ UNCHANGED swVars

\* what the user types into the manual-price App's number input
TypedPrices ==
  { <<"1", "0", "0">>, <<"3", ".", "9">>, <<"0">>, <<"-", "5">> }

\* the input's onChange, manual-price App: setPrice(e.target.value)
SetPrice ==
  /\ app = "manual"
  /\ \E v \in TypedPrices \cup {<<>>} : v /= price /\ price' = v
  /\ UNCHANGED << app, messages, inputValue, symbol, script, error, isLoading,
                  pending, now, uncaught, submits, last, basePrice, forSymbol,
                  result, calls, settled, requests >>
  /\ UNCHANGED swVars

\* the required number input lets a submit event through
ManualSubmitEnabled == price /= <<>>

\* An invalid price that leaves the script on display: what C14 must tell
\* from ManualInvalid
ManualInvalidKeepsScript == [script |-> script, error |-> InvalidManualText]

\* setError('Please enter a valid, positive number ...'); setScript('')
ManualInvalid == [script |-> <<>>, error |-> InvalidManualText]

\* A rendering that leaves the error on display: what C16 must tell from
\* ManualOutcome
ManualOutcomeKeepsError(numericPrice, generated) ==
  IF ~ValidPrice(numericPrice)
  THEN [shown |-> ManualInvalid, called |-> FALSE, last |-> "invalidPrice"]
  ELSE [shown  |-> [script |-> generated.script,
                    error  |-> IF generated.script /= <<>> THEN error
                               ELSE generated.error],
        called |-> TRUE,
        last   |-> IF generated.script /= <<>> THEN "script" ELSE "tooLow"]

\* what handleSubmit of the manual-price App leaves in script and error for
\* the price it parsed, and how it ended
ManualOutcome(numericPrice, generated) ==
  IF ~ValidPrice(numericPrice)
  THEN [shown |-> ManualInvalid, called |-> FALSE, last |-> "invalidPrice"]
  ELSE [shown  |-> generated,
        called |-> TRUE,
        last   |-> IF generated.script /= <<>> THEN "script" ELSE "tooLow"]

ManualParsed(numericPrice) ==
  ManualOutcome(numericPrice,
                IF ValidPrice(numericPrice) THEN ManualGenerate(numericPrice)
                ELSE Undefined)

\* handleSubmit of the manual-price App
ManualHandleSubmit ==
  /\ app = "manual"
  /\ submits < MaxSubmits
  /\ ManualSubmitEnabled
  /\ \E numericPrice \in {ParseFloat(price)} :
       \E out \in {ManualParsed(numericPrice)} :
         /\ script' = out.shown.script
         /\ error' = out.shown.error
         /\ last' = out.last
         /\ basePrice' = (IF out.called THEN numericPrice ELSE basePrice)
         /\ calls' = calls + (IF out.called THEN 1 ELSE 0)
  /\ submits' = submits + 1
  /\ UNCHANGED << app, messages, inputValue, symbol, price, isLoading,
                  pending, now, uncaught, forSymbol, result, settled,
                  requests >>
  /\ UNCHANGED swVars

Next ==
  \/ SetInputValue
  \/ SetSymbol
  \/ SetPrice
  \/ HandleSendMessage
  \/ HandleSubmit
  \/ ManualHandleSubmit
  \/ SettleSendMessage
  \/ SettleSubmit
  \/ Tick

Spec == Init /\ [][Next]_vars

--------------------------------------------------------------------------
(* Claims about the submission handlers, under Spec *)

\* C8: at most one price request is outstanding at any time, whatever the
\* order of submit events and settlings.
C8_OneRequestInFlight == Len(pending) <= 1

\* C8's case: a second submission has been accepted and its request is the
\* only one in flight
C8_Witness == submits = 2 /\ Len(pending) = 1 /\ isLoading

\* the latest handler run ended in a failure
Failed == last \in {"failed", "invalidPrice", "tooLow"}

\* the failure of the latest handler run is on display: the chat App's last
\* message is a bot text, the form App shows error and no script
FailureShown ==
  IF app = "chat"
  THEN /\ messages[Len(messages)].sender = "bot"
       /\ messages[Len(messages)].content.kind = "text"
       /\ messages[Len(messages)].content.text /= <<>>
  ELSE error /= <<>> /\ script = <<>>

\* C9: every failure of a submission (generator error, no valid price, a
\* rejected or throwing call) is caught in the handler and shown as a message;
\* no exception leaves the handler, and the inputs are enabled again.
C9_FailuresShown ==
  /\ uncaught = 0
  /\ Failed => FailureShown /\ ~isLoading /\ pending = <<>>

\* C9's case: after a rejected request, shown as its message, the chat App
\* has accepted the next submission
C9_Witness ==
  /\ app = "chat"
  /\ submits = 2
  /\ last = "started"
  /\ \E i \in 1..Len(messages) :
       /\ messages[i].sender = "bot"
       /\ messages[i].content = TextContent(NetworkErrorText)

--------------------------------------------------------------------------
(* Claims about prices, failures and results, under Spec *)

\* a handler ran in this step, to its await or to its end
HandlerRan == submits' /= submits \/ pending' /= pending

\* x is a Number above zero
IsPositive(x) == "m" \in DOMAIN x /\ x.m /= <<>>

\* C11: a reply (or, in the manual-price App, an input) that yields no number,
\* zero or a negative value ends the submission with an error message and
\* without a call of the generator; the generator is only ever called with a
\* Number above zero.
C11_GeneratorGetsPositivePrice ==
  /\ [](calls > 0 => IsPositive(basePrice))
  /\ [](last = "invalidPrice" => FailureShown)
  /\ [](app \in FetchApps /\ last \in {"script", "tooLow"} =>
          settled.kind = "resolved" /\ IsPositive(ReplyPrice(settled)))
  /\ [][HandlerRan /\ last' = "invalidPrice" => calls' = calls]_vars
  /\ [][calls' /= calls => IsPositive(basePrice')]_vars

\* C11's case: the reply 0 has ended a submission of the form App with an
\* error and without a call
C11_Witness ==
  /\ app = "form"
  /\ last = "invalidPrice"
  /\ settled = [kind |-> "resolved", text |-> <<"0">>]
  /\ calls = 0
  /\ error /= <<>>

\* the external call of the latest handler run rejected or threw
CallFailed == last = "failed" /\ settled.kind \in {"rejected", "threw"}

\* the text of the chat App's last message
LastText == messages[Len(messages)].content.text

\* C12 (as amended): a call that rejects or throws is shown, in the form App,
\* as a fixed message whatever the error; in the chat App as the error's own
\* message, and as a fixed message only when the error's message is empty.
C12_FailureMessage ==
  CallFailed =>
    /\ app = "form" => error = FetchFailedText
    /\ app = "chat" =>
         /\ messages[Len(messages)].sender = "bot"
         /\ messages[Len(messages)].content.kind = "text"
         /\ settled.err.message /= <<>> => LastText = settled.err.message
         /\ settled.err.message = <<>> => LastText = UnexpectedErrorText

\* C12's case: the chat App's request was rejected with an error without a
\* message, and the fixed text is shown
C12_Witness ==
  /\ app = "chat"
  /\ CallFailed
  /\ settled = [kind |-> "rejected", err |-> Error(<<>>)]
  /\ LastText = UnexpectedErrorText

\* C12 as stated: a call that rejects or throws is shown as a fixed message,
\* whatever the error.
C12_AsStated ==
  CallFailed =>
    /\ app = "form" => error = FetchFailedText
    /\ app = "chat" => LastText = UnexpectedErrorText

\* C13 (as amended): nothing is retried.  An accepted submission issues at
\* most one price request (none when the client or the call throws before the
\* request goes out) and calls the generator at most once; a request goes out
\* only in the step that accepts a submission, so none follows a failure
\* until the user submits again.
C13_NoRetry ==
  /\ [](requests <= submits /\ calls <= submits)
  /\ [](app \in FetchApps => calls + Len(pending) <= requests)
  /\ [][requests' /= requests =>
          requests' = requests + 1 /\ submits' = submits + 1]_vars
  /\ [][calls' /= calls => calls' = calls + 1 /\ HandlerRan]_vars

\* C13's case: a request was rejected, nothing went out until the user
\* submitted again, and the second request is in flight
C13_Witness ==
  /\ app = "form"
  /\ settled.kind = "rejected"
  /\ last = "started"
  /\ submits = 2
  /\ requests = 2

\* C13 as stated: every accepted submission of the chat and form Apps has
\* issued exactly one price request, and the generator was called at most
\* once for each.
C13_AsStated ==
  app \in FetchApps => requests = submits /\ calls <= requests

\* the positions of the chat App's messages that show a script
ScriptMessages == {i \in 1..Len(messages) : messages[i].content.kind = "script"}

\* C14 (as amended): a submission's result is computed from the price just
\* fetched (or typed).  In the form and manual-price Apps it replaces what was
\* shown: a script on display is the latest submission's, and none is on
\* display while a request is in flight or after a failure.  In the chat App
\* it is appended as the last message, below the earlier results.
C14_LatestResult ==
  /\ app \in {"form", "manual"} /\ script /= <<>> =>
       /\ last = "script"
       /\ error = <<>>
  /\ app = "form" /\ script /= <<>> =>
       /\ basePrice = ReplyPrice(settled)
       /\ script = FormGenerate(basePrice, forSymbol).script
  /\ app = "manual" /\ script /= <<>> =>
       script = ManualGenerate(basePrice).script
  /\ app = "chat" /\ last = "script" =>
       /\ basePrice = ReplyPrice(settled)
       /\ messages[Len(messages)].content
            = ScriptContent(ToUpperCase(forSymbol),
                            ChatGenerate(basePrice, forSymbol).script)

\* C14's case: the form App's second submission has put its script in the
\* place of the first one's result
C14_Witness ==
  /\ app = "form"
  /\ submits = 2
  /\ last = "script"
  /\ script /= <<>>
  /\ settled = [kind |-> "resolved", text |-> <<"1", "0", "0">>]

\* C14 as stated: once a submission has ended, no script of an earlier
\* submission is held alongside its result.
C14_AsStated ==
  /\ app \in {"form", "manual"} /\ script /= <<>> => last = "script"
  /\ app = "chat" /\ last /= "started" =>
       \A i \in ScriptMessages : i = Len(messages)

\* where decimal numbers start in the text s: at a digit, or at a point with
\* a digit after it, that no digit or point precedes
NumberStarts(s) ==
  {i \in 1..Len(s) :
     /\ IsDigit(s[i]) \/ (s[i] = "." /\ i < Len(s) /\ IsDigit(s[i + 1]))
     /\ i > 1 => ~(IsDigit(s[i - 1]) \/ s[i - 1] = ".")}

\* the value of the first decimal number that appears in s, NaN if there is
\* none
FirstNumber(s) ==
  IF NumberStarts(s) = {} THEN NaN
  ELSE ParseUnsigned(SubSeq(s, CHOOSE i \in NumberStarts(s) :
                                  \A j \in NumberStarts(s) : i <= j,
                            Len(s)))

\* C15: for every response text, the price passed on to the generator is the
\* value of the first decimal number that appears in the text.
C15_FirstNumberPassedOn ==
  app \in FetchApps /\ last \in {"script", "tooLow"} =>
    basePrice = FirstNumber(settled.text)

\* C16: in the form App and the manual-price App script and error are never
\* both non-empty: a step that puts up an error leaves script empty, and a
\* step that puts up a script leaves error empty.
C16_ScriptOrError ==
  /\ [](app \in {"form", "manual"} => script = <<>> \/ error = <<>>)
  /\ [][error' /= error /\ error' /= <<>> => script' = <<>>]_vars
  /\ [][script' /= script /\ script' /= <<>> => error' = <<>>]_vars

\* C16's case: the manual-price App showed the error of an invalid price, and
\* the next submission's script has taken its place
C16_Witness ==
  /\ app = "manual"
  /\ submits = 2
  /\ calls = 1
  /\ last = "script"
  /\ script /= <<>>
  /\ error = <<>>

--------------------------------------------------------------------------
(* Claims about the chat App's message list, under Spec *)

\* the positions of the loading placeholders in the message list
Placeholders ==
  {i \in 1..Len(messages) : messages[i].content.kind = "loading"}

\* C17: in the chat App the message list holds no loading placeholder while
\* isLoading is false, and exactly one while a request is in flight: the one
\* of that submission, directly after the submission's user message.
C17_PlaceholderWhileLoading ==
  app = "chat" =>
    /\ ~isLoading => Placeholders = {}
    /\ isLoading <=> pending /= <<>>
    /\ pending /= <<>> =>
         /\ Placeholders = {Len(messages)}
         /\ messages[Len(messages)].id = Head(pending).loadingMessageId
         /\ messages[Len(messages)].sender = "bot"
         /\ messages[Len(messages) - 1].sender = "user"
         /\ messages[Len(messages) - 1].content
              = TextContent(Head(pending).symbol)

\* C17's case: the second request is in flight, its placeholder below the
\* first submission's messages
C17_Witness ==
  /\ app = "chat"
  /\ submits = 2
  /\ pending /= <<>>
  /\ Len(messages) = 5
  /\ Placeholders = {5}

\* the sequence s without its i-th element
Without(s, i) == SubSeq(s, 1, i - 1) \o SubSeq(s, i + 1, Len(s))

\* m is a response of the bot, no placeholder
IsResponse(m) == m.sender = "bot" /\ m.content.kind \in {"text", "script"}

\* this step completes the submission in flight: out goes its placeholder,
\* and that alone, and one response is appended
Completes ==
  /\ pending /= <<>>
  /\ \E i \in Placeholders :
       /\ messages[i].id = Head(pending).loadingMessageId
       /\ Len(messages') = Len(messages)
       /\ SubSeq(messages', 1, Len(messages) - 1) = Without(messages, i)
  /\ IsResponse(messages'[Len(messages')])

\* this step appends a user message and below it the message kind says: the
\* placeholder of a submission that starts, or the response of one that fails
\* before its request goes out
Posts(kind) ==
  /\ Len(messages') = Len(messages) + 2
  /\ SubSeq(messages', 1, Len(messages)) = messages
  /\ messages'[Len(messages) + 1].sender = "user"
  /\ messages'[Len(messages) + 2].sender = "bot"
  /\ messages'[Len(messages) + 2].content.kind = kind

C19_DistinctIds ==
  app = "chat" =>
    \A i, j \in 1..Len(messages) : i /= j => messages[i].id /= messages[j].id

--------------------------------------------------------------------------
(* The service worker: install, activate, and the fetch events it answers. *)
(* A promise callback runs without interruption, so each settling of a     *)
(* promise the worker waits for (caches.match, fetch, cache.put) is one     *)
(* step.  The page's variables stay as the page left them.                  *)

MaxEvents == 2

pageVars == << app, appVars, basePrice, forSymbol, result, calls >>

CACHE_NAME == "support-resistance-generator-v1"

\* a cache an earlier version of the worker left behind
LegacyCacheName == "support-resistance-generator-v0"

\* the app shell: two of its seventeen URLs stand for all
APP_SHELL_URLS == {"/", "/index.html"}

\* the URLs the page requests: the shell's and one outside it
Urls == APP_SHELL_URLS \cup {"/api/price"}

Methods == {"GET", "POST"}

\* a response: its status and where its body comes from
Response(status, body) == [status |-> status, body |-> body]

\* what caches.match resolves to when nothing matches
NoResponse == [status |-> 0, body |-> "none"]

\* what the network answers, when it answers
NetworkResponses ==
  {Response(200, "v1"), Response(200, "v2"), Response(404, "v1")}

\* how a fetch ends: with a response, or rejected
NetworkOutcomes ==
  {[kind |-> "resolved", response |-> r] : r \in NetworkResponses}
  \cup {[kind |-> "rejected"]}

\* a cache: its name and its entries, a response for each URL it holds
CacheOf(name, entries) == [name |-> name, entries |-> entries]

NoEntries == [u \in {} |-> NoResponse]

HasCache(cs, name) == \E i \in 1..Len(cs) : cs[i].name = name

\* caches.open(name): the cache is created if there is none of that name
Open(cs, name) ==
  IF HasCache(cs, name) THEN cs ELSE Append(cs, CacheOf(name, NoEntries))

\* cache.put(request, response) on entries: the URL's entry is added or
\* replaced
Put(entries, url, response) ==
  [u \in DOMAIN entries \cup {url} |->
     IF u = url THEN response ELSE entries[u]]

\* cache.put on the cache called name
PutInto(cs, name, url, response) ==
  [i \in 1..Len(cs) |->
     IF cs[i].name = name
     THEN CacheOf(name, Put(cs[i].entries, url, response))
     ELSE cs[i]]

\* caches.match(request): the entry of the first cache, in creation order,
\* that holds the request's URL
Match(cs, url) ==
  IF \E i \in 1..Len(cs) : url \in DOMAIN cs[i].entries
  THEN cs[CHOOSE i \in 1..Len(cs) :
            /\ url \in DOMAIN cs[i].entries
            /\ \A j \in 1..(i - 1) : url \notin DOMAIN cs[j].entries]
         .entries[url]
  ELSE NoResponse

\* a fetch event: the request, where its handling stands (pc), the response
\* handed to the page, the network fetches the worker made for it, and the
\* state of the cache.put it started
FetchEvent(method, url, pc) ==
  [method |-> method, url |-> url, pc |-> pc, response |-> NoResponse,
   fetches |-> 0, put |-> "none"]

SWInit ==
  /\ app = "chat"
  /\ messages = InitialMessages
  /\ inputValue = <<>>
  /\ symbol = <<>>
  /\ price = <<>>
  /\ script = <<>>
  /\ error = <<>>
  /\ isLoading = FALSE
  /\ pending = <<>>
  /\ now = 0
  /\ uncaught = 0
  /\ submits = 0
  /\ last = "none"
  /\ basePrice = Undefined
  /\ forSymbol = <<>>
  /\ result = Undefined
  /\ calls = 0
  /\ settled = NoSettlement
  /\ requests = 0
  /\ worker = "installing"
  /\ caches \in
       { <<>>,
         << CacheOf(LegacyCacheName,
                    [u \in {"/"} |-> Response(200, "legacy")]) >> }
  /\ events = <<>>

\* cache.addAll(urls) on the cache called name, every request answered with
\* response
AddAllInto(cs, name, urls, response) ==
  [i \in 1..Len(cs) |->
     IF cs[i].name = name
     THEN CacheOf(name,
                  [u \in DOMAIN cs[i].entries \cup urls |->
                     IF u \in urls THEN response ELSE cs[i].entries[u]])
     ELSE cs[i]]

\* the install listener: the cache is opened and the whole shell is added,
\* or, when a shell request fails, nothing is; the failure is logged and the
\* worker installs all the same
OnInstall ==
  /\ worker = "installing"
  /\ \E added \in BOOLEAN :
       caches' =
         IF added
         THEN AddAllInto(Open(caches, CACHE_NAME), CACHE_NAME, APP_SHELL_URLS,
                         Response(200, "v1"))
         ELSE Open(caches, CACHE_NAME)
  /\ worker' = "installed"
  /\ UNCHANGED << pageVars, events >>

cacheWhitelist == {CACHE_NAME}

\* An activate listener that deletes nothing: what C22 must tell from
\* Deleted
NothingDeleted(cacheName) == FALSE

\* cacheWhitelist.indexOf(cacheName) === -1
Deleted(cacheName) == cacheName \notin cacheWhitelist

\* the activate listener: every cache whose name is not on the whitelist is
\* deleted.  Fetch events are held back until the listener's promise has
\* settled, so nothing runs between caches.keys() and the deletions.
OnActivate ==
  /\ worker = "installed"
  /\ caches' = SelectSeq(caches, LAMBDA c : ~Deleted(c.name))
  /\ worker' = "activated"
  /\ UNCHANGED << pageVars, events >>

\* the fetch listener up to respondWith: a request that is no GET is left to
\* the browser, for a GET caches.match is started
OnFetch ==
  /\ worker = "activated"
  /\ Len(events) < MaxEvents
  /\ \E method \in Methods, url \in Urls :
       events' =
         Append(events,
                FetchEvent(method, url,
                           IF method /= "GET" THEN "unhandled"
                           ELSE "matching"))
  /\ UNCHANGED << pageVars, worker, caches >>

\* A worker that asks the network whatever the cache holds: what C20 must
\* tell from ServeFromCache
NeverFromCache(response) == FALSE

\* if (response): caches.match found an entry
ServeFromCache(response) == response /= NoResponse

\* caches.match settles for event i: a cached response is returned, and
\* without one the request goes to the network
MatchSettles(i) ==
  /\ events[i].pc = "matching"
  /\ \E response \in {Match(caches, events[i].url)} :
       events' =
         [events EXCEPT
            ![i] = IF ServeFromCache(response)
                   THEN [@ EXCEPT !.pc = "done", !.response = response]
                   ELSE [@ EXCEPT !.pc = "fetching", !.fetches = @ + 1]]
  /\ UNCHANGED << pageVars, worker, caches >>

\* A worker that caches whatever the network answers: what C21 must tell
\* from ValidResponse
AnyResponseValid(networkResponse) == TRUE

\* the negation of (!networkResponse || networkResponse.status !== 200)
ValidResponse(networkResponse) ==
  networkResponse /= NoResponse /\ networkResponse.status = 200

\* the network fetch of event i settles: a rejection is logged and thrown
\* on; a response is returned, and one with status 200 is also cloned for
\* the cache
FetchSettles(i) ==
  /\ events[i].pc = "fetching"
  /\ \E outcome \in NetworkOutcomes :
       events' =
         [events EXCEPT
            ![i] = IF outcome.kind = "rejected"
                   THEN [@ EXCEPT !.pc = "failed"]
                   ELSE IF ~ValidResponse(outcome.response)
                   THEN [@ EXCEPT !.pc = "done",
                                  !.response = outcome.response]
                   ELSE [@ EXCEPT !.pc = "done",
                                  !.response = outcome.response,
                                  !.put = "pending"]]
  /\ UNCHANGED << pageVars, worker, caches >>

\* caches.open(CACHE_NAME) and cache.put of event i settle
PutSettles(i) ==
  /\ events[i].put = "pending"
  /\ caches' = PutInto(Open(caches, CACHE_NAME), CACHE_NAME, events[i].url,
                       events[i].response)
  /\ events' = [events EXCEPT ![i].put = "done"]
  /\ UNCHANGED << pageVars, worker >>

SWNext ==
  \/ OnInstall
  \/ OnActivate
  \/ OnFetch
  \/ \E i \in 1..Len(events) : MatchSettles(i)
  \/ \E i \in 1..Len(events) : FetchSettles(i)
  \/ \E i \in 1..Len(events) : PutSettles(i)

SpecSW == SWInit /\ [][SWNext]_vars

--------------------------------------------------------------------------
(* Claims about the service worker, under SpecSW *)

\* caches.match finds an entry for the request of event e
Cached(e) == Match(caches, e.url) /= NoResponse

\* C20: the worker answers GET requests cache first: when the request matches
\* a cache entry, that entry is the response and no network fetch is made for
\* the request; the worker fetches from the network only on a miss, and only
\* for GET requests.
C20_CacheFirst ==
  /\ [](\A i \in 1..Len(events) :
          /\ events[i].fetches <= 1
          /\ events[i].fetches = 1 => events[i].method = "GET"
          /\ events[i].method = "GET" /\ events[i].pc = "done"
               /\ events[i].fetches = 0
               => events[i].response /= NoResponse)
  /\ [][\A i \in 1..Len(events) :
          /\ events[i].pc = "matching" /\ events'[i].pc /= "matching"
               /\ Cached(events[i])
               => /\ events'[i].pc = "done"
                  /\ events'[i].response = Match(caches, events[i].url)
                  /\ events'[i].fetches = 0
          /\ events'[i].fetches /= events[i].fetches
               => ~Cached(events[i])]_vars

\* C20's case: a GET outside the shell went to the network and was cached,
\* and the next GET for it has been answered from the cache, without a fetch
C20_Witness ==
  /\ Len(events) = 2
  /\ events[1].url = "/api/price" /\ events[1].fetches = 1
  /\ events[2].url = "/api/price" /\ events[2].method = "GET"
  /\ events[2].pc = "done" /\ events[2].fetches = 0
  /\ events[2].response = events[1].response

\* what the caches hold: the cache's name, the URL and the response of every
\* entry
Stored(cs) ==
  UNION { { << cs[i].name, u, cs[i].entries[u] >> : u \in DOMAIN cs[i].entries }
          : i \in 1..Len(cs) }

\* C21: the worker only ever adds to the cache responses to GET requests that
\* came back with status 200: a request that is no GET is not handled at all,
\* a network response with another status is returned to the page without
\* being stored, and so no error response is ever served from the cache.
C21_OnlyGoodResponsesCached ==
  /\ [](\A i \in 1..Len(events) :
          /\ events[i].method /= "GET"
               => /\ events[i].pc = "unhandled"
                  /\ events[i].response = NoResponse
                  /\ events[i].fetches = 0
                  /\ events[i].put = "none"
          /\ events[i].put /= "none"
               => events[i].method = "GET" /\ events[i].response.status = 200
          /\ events[i].pc = "done" /\ events[i].response.status /= 200
               => events[i].fetches = 1 /\ events[i].put = "none"
          /\ events[i].pc = "done" /\ events[i].fetches = 0
               => events[i].response.status = 200)
  /\ [](\A e \in Stored(caches) : e[3].status = 200)
  /\ [][\A e \in Stored(caches') \ Stored(caches) :
          \/ /\ worker = "installing"
             /\ e[1] = CACHE_NAME /\ e[2] \in APP_SHELL_URLS
             /\ e[3].status = 200
          \/ \E i \in 1..Len(events) :
               /\ events[i].method = "GET" /\ events[i].fetches = 1
               /\ events[i].put = "pending" /\ events'[i].put = "done"
               /\ events[i].response.status = 200
               /\ e = << CACHE_NAME, events[i].url, events[i].response >>]_vars

\* C21's case: the network answered a GET with 404, which the page got and
\* the cache did not, so that the next GET for the URL went to the network
\* again, and its answer, a 200, is now in the cache
C21_Witness ==
  /\ Len(events) = 2
  /\ events[1].method = "GET" /\ events[1].url = "/api/price"
  /\ events[1].pc = "done" /\ events[1].response.status = 404
  /\ events[1].put = "none"
  /\ events[2].method = "GET" /\ events[2].url = "/api/price"
  /\ events[2].fetches = 1 /\ events[2].put = "done"
  /\ << CACHE_NAME, "/api/price", events[2].response >> \in Stored(caches)

\* the names of the caches
Names(cs) == { cs[i].name : i \in 1..Len(cs) }

\* C22: once the activate step is over the only cache that remains is the
\* one called CACHE_NAME: the step deletes every cache of another name,
\* leaves the current cache as it was, and neither then nor later is the
\* current cache deleted or a cache of another name created.
C22_OnlyCurrentCacheRemains ==
  /\ [](worker = "activated" => Names(caches) = {CACHE_NAME})
  /\ [][worker = "installed" /\ worker' = "activated"
          => /\ Names(caches') = Names(caches) \cap {CACHE_NAME}
             /\ Stored(caches') =
                  { e \in Stored(caches) : e[1] = CACHE_NAME }]_vars
  /\ [][HasCache(caches, CACHE_NAME) => HasCache(caches', CACHE_NAME)]_vars

\* C22's case: the worker is activated, the current cache is the only one,
\* and a GET for "/", which the legacy cache held, has been answered from
\* the network
C22_Witness ==
  /\ worker = "activated"
  /\ Names(caches) = {CACHE_NAME}
  /\ \E i \in 1..Len(events) :
       /\ events[i].url = "/" /\ events[i].pc = "done"
       /\ events[i].fetches = 1

=============================================================================
